---- MODULE Spec2Model ----
(***************************************************************************)
(* Composite gateway (src/src/server.js): an Express application that      *)
(* fronts three upstream services (auth, route, subscription).  The model  *)
(* follows one inbound request at a time through the middleware stack, the *)
(* router and the matched handler.  Every outbound axios call is a record  *)
(* in `calls`; it is issued by the handler, stays pending, and settles     *)
(* with an outcome chosen by the environment (an HTTP answer or a          *)
(* transport failure).  The code after an `await` runs in the same step as *)
(* the settlement that resolves the awaited promise (microtask semantics). *)
(***************************************************************************)
EXTENDS Integers, Sequences, FiniteSets, TLC

VARIABLES
    pc,         \* position of the handler of the current request
    req,        \* the inbound request (method, path, headers, body)
    handler,    \* the layer of the stack that took the request
    calls,      \* outbound calls of the current request, in issue order
    responses,  \* responses sent for the current request, in send order
    user,       \* dashboard: userResp.data once the profile fetch succeeded
    served      \* number of inbound requests received so far

vars == <<pc, req, handler, calls, responses, user, served>>

----------------------------------------------------------------------------
(* Bounds of the model *)

MaxRequests == 2
MaxHeaders == 2

(* Timeouts set by the code, in ms; 0 is axios' default: no timeout *)
PROXY_TIMEOUT == 30000
PROBE_TIMEOUT == 10000
NO_TIMEOUT == 0

----------------------------------------------------------------------------
(* JavaScript values.  Scalars are denoted by their literal text; objects  *)
(* are functions from property names to values.                            *)

Undefined == "undefined"
JsFalsy == {"undefined", "null", "0", "''", "false", "NaN"}
Truthy(v) == v \notin JsFalsy

EmptyObj == [k \in {} |-> Undefined]
JsNull == [null |-> "null"]

\* o[k] of JavaScript: undefined when the property is absent
Prop(o, k) == IF k \in DOMAIN o THEN o[k] ELSE Undefined

\* a || b of JavaScript
OrElse(a, b) == IF Truthy(a) THEN a ELSE b

\* { ...o } followed by delete copy[k]
Without(o, k) == [x \in (DOMAIN o) \ {k} |-> o[x]]

----------------------------------------------------------------------------
(* Header names are sequences of character codes, so that toLowerCase is   *)
(* computed and not assumed.                                               *)

ToLowerCaseChar(c) == IF c \in 65..90 THEN c + 32 ELSE c
ToLowerCase(s) == [i \in DOMAIN s |-> ToLowerCaseChar(s[i])]

h_etag == <<101, 116, 97, 103>>
h_location == <<108, 111, 99, 97, 116, 105, 111, 110>>
h_link == <<108, 105, 110, 107>>
h_content_type == <<99, 111, 110, 116, 101, 110, 116, 45, 116, 121, 112, 101>>
h_ETag == <<69, 84, 97, 103>>
h_content_length == <<99, 111, 110, 116, 101, 110, 116, 45, 108, 101, 110, 103, 116, 104>>
h_set_cookie == <<115, 101, 116, 45, 99, 111, 111, 107, 105, 101>>
h_x_etag == <<120, 45, 101, 116, 97, 103>>

passHeaders == {h_etag, h_location, h_link, h_content_type}

\* the header names an upstream may put on its answer
UpstreamHeaderNames ==
    {h_ETag, h_link, h_content_type, h_content_length, h_set_cookie, h_x_etag}

UpstreamHeaderSets == {hs \in SUBSET UpstreamHeaderNames : Cardinality(hs) <= MaxHeaders}

\* the loop that copies the allow-listed headers of an upstream answer
PassHeadersAll(hs) == hs
PassHeaders(hs) == {k \in hs : ToLowerCase(k) \in passHeaders}

----------------------------------------------------------------------------
(* Inbound requests *)

Methods == {"GET", "POST", "PUT", "DELETE", "OPTIONS"}

Paths ==
    { <<"health">>,
      <<"api", "auth", "login">>,
      <<"api", "users", "7">>,
      <<"api", "routes">>,
      <<"api", "subscriptions">>,
      <<"api", "subscriptions", "5">>,
      <<"api", "trips">>,
      <<"api", "commuter", "dashboard">>,
      <<"api", "other">> }

\* req.headers: host is always there, authorization is absent, empty or a token
InboundHeaders ==
    { [host |-> "gateway"],
      [host |-> "gateway", authorization |-> "''"],
      [host |-> "gateway", authorization |-> "Bearer t"] }

\* req.body as express.json() leaves it: an object in which each of the three
\* fields is absent, falsy or given (a request without a body has {})
BodyFields == {"userId", "routeId", "semester"}

Bodies ==
    { [k \in ks |-> v[k]] :
        ks \in SUBSET BodyFields,
        v \in [userId : {"0", "14"}, routeId : {"0", "1"}, semester : {"''", "Fall 2025"}] }

BodiesOf(m) == IF m = "POST" THEN Bodies ELSE {EmptyObj}

\* the query string of req.originalUrl: none, or one with a parameter
Queries == {"", "?page=2"}

Requests ==
    UNION { { [method |-> m, path |-> p, query |-> q, headers |-> h, body |-> b] :
                p \in Paths, q \in Queries, h \in InboundHeaders, b \in BodiesOf(m) } :
            m \in Methods }

NoRequest ==
    [method |-> "", path |-> <<>>, query |-> "", headers |-> EmptyObj, body |-> EmptyObj]

----------------------------------------------------------------------------
(* Upstream answers.  A raw outcome is what the network gives axios: an    *)
(* HTTP answer (ok) or a transport failure (connection refused, DNS,       *)
(* timeout).                                                               *)

Http(s, hs, d) == [ok |-> TRUE, status |-> s, headers |-> hs, data |-> d]
TransportError == [ok |-> FALSE, status |-> 0, headers |-> {}, data |-> EmptyObj]
NoOutcome == [ok |-> FALSE, status |-> -1, headers |-> {}, data |-> EmptyObj]

HealthOutcomes == {Http(s, {}, EmptyObj) : s \in {200, 503}} \cup {TransportError}

ProbeOutcomes == {Http(s, {}, EmptyObj) : s \in {200, 401, 404, 500}} \cup {TransportError}

PassthroughOutcomes ==
    {Http(s, hs, d) : s \in {201, 404, 500}, hs \in UpstreamHeaderSets,
                      d \in {[id |-> "26"], [error |-> "upstream"]}}
    \cup {TransportError}

ProfileBodies == {[id |-> "7"], [userId |-> "8"], [id |-> "7", userId |-> "8"], EmptyObj, JsNull}

ProfileOutcomes ==
    {Http(200, {}, d) : d \in ProfileBodies}
    \cup {Http(s, {}, EmptyObj) : s \in {401, 500}} \cup {TransportError}

FanoutOutcomes ==
    {Http(200, {}, [items |-> "list"]), Http(500, {}, EmptyObj), TransportError}

----------------------------------------------------------------------------
(* axios and promises *)

\* the default validateStatus of axios
AnyStatus(s) == TRUE
DefaultValidateStatus(s) == s >= 200 /\ s < 300

\* the promise of a call: pending, fulfilled with the answer, or rejected
Pending == [state |-> "pending", status |-> 0, headers |-> {}, data |-> EmptyObj]
Fulfilled(s, hs, d) == [state |-> "fulfilled", status |-> s, headers |-> hs, data |-> d]
Rejected == [state |-> "rejected", status |-> 0, headers |-> {}, data |-> EmptyObj]

AxiosPromiseDefaultValidate(c) ==
    IF c.st # "settled" THEN Pending
    ELSE IF c.raw.ok /\ DefaultValidateStatus(c.raw.status)
         THEN Fulfilled(c.raw.status, c.raw.headers, c.raw.data)
         ELSE Rejected
AxiosPromise(c) ==
    IF c.st # "settled" THEN Pending
    ELSE IF c.raw.ok /\ (c.validateAll \/ DefaultValidateStatus(c.raw.status))
         THEN Fulfilled(c.raw.status, c.raw.headers, c.raw.data)
         ELSE Rejected

\* p.catch(() => v)
Catch(p, v) == IF p.state = "rejected" THEN v ELSE p

\* Promise.allSettled: waits for every promise, never rejects; the value is
\* the list of the promises' final states
AllSettledFirst(ps) ==
    IF \A i \in DOMAIN ps : ps[i].state = "pending"
    THEN [state |-> "pending", value |-> <<>>]
    ELSE [state |-> "fulfilled", value |-> [i \in DOMAIN ps |-> ps[i].state]]
AllSettled(ps) ==
    IF \E i \in DOMAIN ps : ps[i].state = "pending"
    THEN [state |-> "pending", value |-> <<>>]
    ELSE [state |-> "fulfilled", value |-> [i \in DOMAIN ps |-> ps[i].state]]

\* Promise.all: rejects as soon as one promise is rejected, is fulfilled with
\* the list of values once all are fulfilled
PromiseAll(ps) ==
    IF \E i \in DOMAIN ps : ps[i].state = "rejected"
    THEN [state |-> "rejected", value |-> <<>>]
    ELSE IF \E i \in DOMAIN ps : ps[i].state = "pending"
    THEN [state |-> "pending", value |-> <<>>]
    ELSE [state |-> "fulfilled", value |-> ps]

----------------------------------------------------------------------------
(* Outbound calls *)

NewCall(id, target, method, path, headers, data, validateAll, timeout) ==
    [id |-> id, target |-> target, method |-> method, path |-> path, query |-> "",
     params |-> EmptyObj, headers |-> headers, data |-> data, validateAll |-> validateAll,
     timeout |-> timeout, st |-> "pending", ord |-> 0, raw |-> NoOutcome]

Issued(cs, id) == \E i \in DOMAIN cs : cs[i].id = id
CallOf(cs, id) == cs[CHOOSE i \in DOMAIN cs : cs[i].id = id]
IsPending(cs, id) == \E i \in DOMAIN cs : cs[i].id = id /\ cs[i].st = "pending"

\* call id can end with raw: an upstream that is still working may give any
\* outcome; one that took the request and never answers (st = "hung") leaves
\* only the timer of the call, if it has one, which ends it as a transport
\* failure
CanEnd(cs, id, raw) ==
    \E i \in DOMAIN cs :
        /\ cs[i].id = id
        /\ \/ cs[i].st = "pending"
           \/ cs[i].st = "hung" /\ cs[i].timeout > 0 /\ raw = TransportError
NSettled(cs) == Cardinality({i \in DOMAIN cs : cs[i].st = "settled"})

\* a client that issues the call once more after a transport failure
SettleWithRetry(cs, id, raw) ==
    LET done == [i \in DOMAIN cs |->
                    IF cs[i].id = id /\ cs[i].st # "settled"
                    THEN [cs[i] EXCEPT !.st = "settled", !.raw = raw, !.ord = NSettled(cs) + 1]
                    ELSE cs[i]]
        again == [CallOf(cs, id) EXCEPT !.st = "pending"]
    IN IF raw = TransportError /\ Cardinality({i \in DOMAIN cs : cs[i].id = id}) = 1
       THEN Append(done, again)
       ELSE done

\* the network settles call id with the raw outcome
Settle(cs, id, raw) ==
    [i \in DOMAIN cs |->
        IF cs[i].id = id /\ cs[i].st # "settled"
        THEN [cs[i] EXCEPT !.st = "settled", !.raw = raw, !.ord = NSettled(cs) + 1]
        ELSE cs[i]]

(* Responses *)
Response(s, hs, b) == [status |-> s, headers |-> hs, body |-> b]

----------------------------------------------------------------------------
(* The middleware stack and the router, in registration order.  A layer    *)
(* mounted with app.use matches every method and every path under its      *)
(* prefix; a layer mounted with app.get / app.post matches its method and  *)
(* exactly its path.  No handler calls next(), so the first match wins.    *)

IsPrefix(p, q) == Len(p) <= Len(q) /\ \A i \in 1..Len(p) : p[i] = q[i]

Use(path, h) == [kind |-> "use", method |-> "*", path |-> path, handler |-> h]
Verb(m, path, h) == [kind |-> "verb", method |-> m, path |-> path, handler |-> h]

LayersProxyFirst ==
    << Use(<<>>, "cors"),
       Verb("GET", <<"health">>, "health"),
       Use(<<"api", "auth">>, "authProxy"),
       Use(<<"api", "users">>, "authProxy"),
       Use(<<"api", "routes">>, "routeProxy"),
       Use(<<"api", "subscriptions">>, "subProxy"),
       Verb("POST", <<"api", "subscriptions">>, "fkGate"),
       Use(<<"api", "trips">>, "subProxy"),
       Verb("GET", <<"api", "commuter", "dashboard">>, "dashboard") >>

Layers ==
    << Use(<<>>, "cors"),
       Verb("GET", <<"health">>, "health"),
       Use(<<"api", "auth">>, "authProxy"),
       Use(<<"api", "users">>, "authProxy"),
       Use(<<"api", "routes">>, "routeProxy"),
       Verb("POST", <<"api", "subscriptions">>, "fkGate"),
       Use(<<"api", "subscriptions">>, "subProxy"),
       Use(<<"api", "trips">>, "subProxy"),
       Verb("GET", <<"api", "commuter", "dashboard">>, "dashboard") >>

\* cors() ends an OPTIONS request itself (preflight) and passes any other on
Takes(l, r) ==
    IF l.handler = "cors" THEN r.method = "OPTIONS"
    ELSE IF l.kind = "use" THEN IsPrefix(l.path, r.path)
    ELSE l.method = r.method /\ l.path = r.path

\* the handler that ends the request; Express answers 404 when none matches
Dispatch(r) ==
    IF \E i \in DOMAIN Layers : Takes(Layers[i], r)
    THEN Layers[CHOOSE i \in DOMAIN Layers :
                    Takes(Layers[i], r) /\ \A j \in 1..(i - 1) : ~Takes(Layers[j], r)].handler
    ELSE "notFound"

\* createProxy(baseUrl): the upstream each proxy was created for
BaseOf(h) ==
    CASE h = "authProxy" -> "auth"
      [] h = "routeProxy" -> "route"
      [] h = "subProxy" -> "sub"

Proxies == {"authProxy", "routeProxy", "subProxy"}

----------------------------------------------------------------------------
(* State after app.listen: no request yet *)

Init ==
    /\ pc = "idle"
    /\ req = NoRequest
    /\ handler = "none"
    /\ calls = <<>>
    /\ responses = <<>>
    /\ user = EmptyObj
    /\ served = 0

\* a new inbound request r reaches the layer h that ends it
Listening == pc = "idle" /\ served < MaxRequests

Accept(r, h) ==
    /\ Dispatch(r) = h
    /\ req' = r
    /\ handler' = h
    /\ served' = served + 1
    /\ user' = EmptyObj

\* res.status(..).json(..) / res.send(..): one more response on the wire
Send(resp) == responses' = Append(responses, resp)

ErrorBody(code, message) == [error |-> code, message |-> message]

----------------------------------------------------------------------------
(* app.use(cors(..)): an OPTIONS request is answered 204 by the middleware *)
CorsPreflight ==
    /\ Listening
    /\ \E r \in Requests :
          /\ Accept(r, "cors")
          /\ calls' = <<>>
          /\ responses' = <<Response(204, {}, EmptyObj)>>
          /\ pc' = "done"

(* no layer matches: Express' final handler answers 404 *)
NotFound ==
    /\ Listening
    /\ \E r \in Requests :
          /\ Accept(r, "notFound")
          /\ calls' = <<>>
          /\ responses' = <<Response(404, {}, EmptyObj)>>
          /\ pc' = "done"

----------------------------------------------------------------------------
(* GET /health *)

HealthProbe(id, target) ==
    NewCall(id, target, "GET", <<"health">>, EmptyObj, EmptyObj, FALSE, NO_TIMEOUT)

\* the value of a promise whose rejection was caught with () => null
NullValue == Fulfilled(0, {}, JsNull)

HealthStart ==
    /\ Listening
    /\ \E r \in Requests :
          /\ Accept(r, "health")
          /\ calls' = << HealthProbe("health_auth", "auth"),
                         HealthProbe("health_route", "route"),
                         HealthProbe("health_sub", "sub") >>
          /\ responses' = <<>>
          /\ pc' = "health"

UpDown(state) == IF state = "fulfilled" THEN "up" ELSE "down"

\* what the handler awaits: allSettled over the three caught probes
HealthJoin(cs) ==
    AllSettled(<< Catch(AxiosPromise(CallOf(cs, "health_auth")), NullValue),
                  Catch(AxiosPromise(CallOf(cs, "health_route")), NullValue),
                  Catch(AxiosPromise(CallOf(cs, "health_sub")), NullValue) >>)

HealthReport(j) ==
    Response(200, {},
        [status |-> "ok",
         services |-> [auth |-> UpDown(j.value[1]),
                       route |-> UpDown(j.value[2]),
                       subscription |-> UpDown(j.value[3])]])

HealthProbeSettles ==
    /\ pc = "health"
    /\ \E id \in {"health_auth", "health_route", "health_sub"}, raw \in HealthOutcomes :
          /\ CanEnd(calls, id, raw)
          /\ LET cs == Settle(calls, id, raw)
                 j == HealthJoin(cs)
             IN /\ calls' = cs
                /\ IF j.state = "pending"
                   THEN pc' = pc /\ responses' = responses
                   ELSE IF j.state = "fulfilled"
                   THEN pc' = "done" /\ Send(HealthReport(j))
                   ELSE pc' = "done" /\ Send(Response(500, {}, [status |-> "degraded"]))
          /\ UNCHANGED <<req, handler, user, served>>

----------------------------------------------------------------------------
(* createProxy(baseUrl): proxyHandler *)

\* the copy of the inbound headers that is sent upstream
ForwardHeadersWithHost(r) == r.headers
ForwardHeaders(r) == Without(r.headers, "host")

\* axios({method, url: baseUrl + req.originalUrl, data: req.body, headers, ...})
ProxyCall(base, r) ==
    [NewCall("proxy", base, r.method, r.path, ForwardHeaders(r), r.body, TRUE, PROXY_TIMEOUT)
        EXCEPT !.query = r.query]

ProxyStart ==
    /\ Listening
    /\ \E r \in Requests :
          /\ \E h \in Proxies :
                /\ Accept(r, h)
                /\ calls' = << ProxyCall(BaseOf(h), r) >>
          /\ responses' = <<>>
          /\ pc' = "proxy"

\* status, allow-listed headers and body of the upstream answer
Passthrough(p) == Response(p.status, PassHeaders(p.headers), [data |-> p.data])

\* try { ... res.send(resp.data) } catch (err) { res.status(502).json(...) }
DownstreamError ==
    Response(502, {}, ErrorBody("DOWNSTREAM_ERROR", "Composite failed to reach downstream"))

ProxyReplyEchoFailure(p) ==
    IF p.state = "fulfilled" THEN Passthrough(p) ELSE Response(p.status, {}, [data |-> p.data])
ProxyReply(p) ==
    IF p.state = "fulfilled" THEN Passthrough(p) ELSE DownstreamError

ProxySettles ==
    /\ pc = "proxy"
    /\ \E raw \in PassthroughOutcomes :
          /\ CanEnd(calls, "proxy", raw)
          /\ LET cs == Settle(calls, "proxy", raw)
                 p == AxiosPromise(CallOf(cs, "proxy"))
             IN /\ calls' = cs
                /\ Send(ProxyReply(p))
          /\ pc' = "done"
          /\ UNCHANGED <<req, handler, user, served>>

----------------------------------------------------------------------------
(* POST /api/subscriptions: the foreign-key gate *)

\* if (!userId || !routeId || !semester)
MissingFieldUndefinedOnly(body) ==
    \E k \in BodyFields : Prop(body, k) = Undefined
MissingField(body) ==
    \/ ~Truthy(Prop(body, "userId"))
    \/ ~Truthy(Prop(body, "routeId"))
    \/ ~Truthy(Prop(body, "semester"))

\* headers: authHeader ? { Authorization: authHeader } : {}
ProbeHeaders(authHeader) ==
    IF Truthy(authHeader) THEN [Authorization |-> authHeader] ELSE EmptyObj

FkProbes(r) ==
    << NewCall("fk_user", "auth", "GET", <<"api", "users", Prop(r.body, "userId")>>,
               ProbeHeaders(Prop(r.headers, "authorization")), EmptyObj, TRUE, PROBE_TIMEOUT),
       NewCall("fk_route", "route", "GET", <<"api", "routes", Prop(r.body, "routeId")>>,
               ProbeHeaders(Prop(r.headers, "authorization")), EmptyObj, TRUE, PROBE_TIMEOUT) >>

FkGateStart ==
    /\ Listening
    /\ \E r \in Requests :
          /\ Accept(r, "fkGate")
          /\ IF MissingField(r.body)
             THEN /\ calls' = <<>>
                  /\ responses' = << Response(400, {},
                          ErrorBody("VALIDATION_ERROR", "userId, routeId, and semester are required")) >>
                  /\ pc' = "done"
             ELSE /\ calls' = FkProbes(r)
                  /\ responses' = <<>>
                  /\ pc' = "fk_probes"

\* .catch(err => ({ status: 503, data: {...} }))
Synthetic503 == Fulfilled(503, {}, [error |-> "Service unavailable"])

\* what the handler awaits: Promise.all over the two caught probes
FkJoinNoCatch(cs) ==
    PromiseAll(<< AxiosPromise(CallOf(cs, "fk_user")), AxiosPromise(CallOf(cs, "fk_route")) >>)
FkJoin(cs) ==
    PromiseAll(<< Catch(AxiosPromise(CallOf(cs, "fk_user")), Synthetic503),
                  Catch(AxiosPromise(CallOf(cs, "fk_route")), Synthetic503) >>)

\* the chain of checks on userResult.status and routeResult.status
FkPrecedenceRouteFirst(u, r) ==
    IF r = 404 THEN "route_missing"
    ELSE IF u = 404 THEN "user_missing"
    ELSE IF u >= 500 THEN "user_unavailable"
    ELSE IF r >= 500 THEN "route_unavailable"
    ELSE "proceed"
FkPrecedenceKeysFirst(u, r) ==
    IF u = 404 THEN "user_missing"
    ELSE IF r = 404 THEN "route_missing"
    ELSE IF u >= 500 THEN "user_unavailable"
    ELSE IF r >= 500 THEN "route_unavailable"
    ELSE "proceed"
FkPrecedenceUserOnly(u, r) ==
    IF u = 404 THEN "user_missing"
    ELSE IF u >= 500 THEN "user_unavailable"
    ELSE "proceed"
FkPrecedence(u, r) ==
    IF u = 404 THEN "user_missing"
    ELSE IF u >= 500 THEN "user_unavailable"
    ELSE IF r = 404 THEN "route_missing"
    ELSE IF r >= 500 THEN "route_unavailable"
    ELSE "proceed"

\* the response of each terminal check
FkRejection(d, body) ==
    CASE d = "user_missing" ->
            Response(400, {}, [error |-> "FOREIGN_KEY_VIOLATION", message |-> "User does not exist",
                               field |-> "userId", value |-> Prop(body, "userId"),
                               validationTimeMs |-> "ms"])
      [] d = "user_unavailable" ->
            Response(503, {}, [error |-> "SERVICE_UNAVAILABLE",
                               message |-> "User service is unavailable for validation",
                               service |-> "auth-user-service"])
      [] d = "route_missing" ->
            Response(400, {}, [error |-> "FOREIGN_KEY_VIOLATION", message |-> "Route does not exist",
                               field |-> "routeId", value |-> Prop(body, "routeId"),
                               validationTimeMs |-> "ms"])
      [] d = "route_unavailable" ->
            Response(503, {}, [error |-> "SERVICE_UNAVAILABLE",
                               message |-> "Route service is unavailable for validation",
                               service |-> "route-service"])

CompositeError ==
    Response(502, {}, ErrorBody("COMPOSITE_ERROR", "Failed to process subscription"))

\* the POST that creates the subscription once both checks passed
FkCreate(r) ==
    NewCall("fk_create", "sub", "POST", <<"api", "subscriptions">>,
            ForwardHeaders(r), r.body, TRUE, PROXY_TIMEOUT)

FkProbeSettles ==
    /\ pc = "fk_probes"
    /\ \E id \in {"fk_user", "fk_route"}, raw \in ProbeOutcomes :
          /\ CanEnd(calls, id, raw)
          /\ LET cs == Settle(calls, id, raw)
                 j == FkJoin(cs)
             IN IF j.state = "pending"
                THEN calls' = cs /\ pc' = pc /\ responses' = responses
                ELSE IF j.state = "rejected"
                THEN calls' = cs /\ pc' = "done" /\ Send(CompositeError)
                ELSE LET d == FkPrecedence(j.value[1].status, j.value[2].status)
                     IN IF d = "proceed"
                        THEN calls' = Append(cs, FkCreate(req)) /\ pc' = "fk_create"
                             /\ responses' = responses
                        ELSE calls' = cs /\ pc' = "done" /\ Send(FkRejection(d, req.body))
          /\ UNCHANGED <<req, handler, user, served>>

\* the answer of the creation is passed on; a failure of the call lands in the
\* handler's catch
FkCreateReplyAsProxy(p) ==
    IF p.state = "fulfilled" THEN Passthrough(p) ELSE DownstreamError
FkCreateReply(p) ==
    IF p.state = "fulfilled" THEN Passthrough(p) ELSE CompositeError

FkCreateSettles ==
    /\ pc = "fk_create"
    /\ \E raw \in PassthroughOutcomes :
          /\ CanEnd(calls, "fk_create", raw)
          /\ LET cs == Settle(calls, "fk_create", raw)
                 p == AxiosPromise(CallOf(cs, "fk_create"))
             IN /\ calls' = cs
                /\ Send(FkCreateReply(p))
          /\ pc' = "done"
          /\ UNCHANGED <<req, handler, user, served>>

----------------------------------------------------------------------------
(* GET /api/commuter/dashboard *)

\* if (!authHeader)
NoTokenAbsentOnly(authHeader) == authHeader = Undefined
NoToken(authHeader) == ~Truthy(authHeader)

DashboardFailed ==
    Response(500, {}, ErrorBody("DASHBOARD_FAILED", "Failed to build commuter dashboard"))

\* the handler without the return after the 401: it goes on to the profile fetch
DashboardStartNoReturn ==
    /\ Listening
    /\ \E r \in Requests :
          /\ Accept(r, "dashboard")
          /\ calls' = << NewCall("dash_profile", "auth", "GET", <<"api", "users", "profile">>,
                                 [Authorization |-> Prop(r.headers, "authorization")],
                                 EmptyObj, FALSE, NO_TIMEOUT) >>
          /\ responses' = IF NoToken(Prop(r.headers, "authorization"))
                          THEN << Response(401, {},
                                    ErrorBody("UNAUTHORIZED", "Missing Authorization header")) >>
                          ELSE <<>>
          /\ pc' = "dash_profile"

DashboardStart ==
    /\ Listening
    /\ \E r \in Requests :
          /\ Accept(r, "dashboard")
          /\ IF NoToken(Prop(r.headers, "authorization"))
             THEN /\ calls' = <<>>
                  /\ responses' = << Response(401, {},
                          ErrorBody("UNAUTHORIZED", "Missing Authorization header")) >>
                  /\ pc' = "done"
             ELSE /\ calls' = << NewCall("dash_profile", "auth", "GET", <<"api", "users", "profile">>,
                                         [Authorization |-> Prop(r.headers, "authorization")],
                                         EmptyObj, FALSE, NO_TIMEOUT) >>
                  /\ responses' = <<>>
                  /\ pc' = "dash_profile"

\* String(o) of a plain object, which is what a header value that is an
\* object goes out as
ObjectToString(o) == "[object Object]"

\* the second argument of the trips call: params sits inside headers
TripsConfig(authHeader, userId) ==
    [headers |-> [Authorization |-> authHeader,
                  params |-> ObjectToString([userId |-> userId])]]

\* axios.get(url, config): the query parameters are config.params, the
\* headers are config.headers
AxiosGet(id, target, path, config) ==
    [NewCall(id, target, "GET", path, config.headers, EmptyObj, FALSE, NO_TIMEOUT)
        EXCEPT !.params = IF "params" \in DOMAIN config THEN config.params ELSE EmptyObj]

\* the three calls of the fan-out
DashFanout(authHeader, userId) ==
    << AxiosGet("dash_subs", "sub", <<"api", "subscriptions", "user", userId>>,
                [headers |-> [Authorization |-> authHeader]]),
       AxiosGet("dash_routes", "route", <<"api", "routes">>,
                [headers |-> [Authorization |-> authHeader]]),
       AxiosGet("dash_trips", "sub", <<"api", "trips">>, TripsConfig(authHeader, userId)) >>

DashProfileSettles ==
    /\ pc = "dash_profile"
    /\ \E raw \in ProfileOutcomes :
          /\ CanEnd(calls, "dash_profile", raw)
          /\ LET cs == Settle(calls, "dash_profile", raw)
                 p == AxiosPromise(CallOf(cs, "dash_profile"))
             IN IF p.state = "rejected"
                THEN calls' = cs /\ user' = user /\ pc' = "done" /\ Send(DashboardFailed)
                ELSE IF p.data = JsNull
                \* user.id of null throws a TypeError, caught by the handler's catch
                THEN calls' = cs /\ user' = p.data /\ pc' = "done" /\ Send(DashboardFailed)
                ELSE /\ user' = p.data
                     /\ calls' = cs \o DashFanout(Prop(req.headers, "authorization"),
                                                  OrElse(Prop(p.data, "id"), Prop(p.data, "userId")))
                     /\ pc' = "dash_fanout"
                     /\ responses' = responses
          /\ UNCHANGED <<req, handler, served>>

\* what the handler awaits: Promise.all over the three calls
DashJoinTolerant(cs) ==
    LET ps == << AxiosPromise(CallOf(cs, "dash_subs")),
                 AxiosPromise(CallOf(cs, "dash_routes")),
                 AxiosPromise(CallOf(cs, "dash_trips")) >>
    IN IF \E i \in DOMAIN ps : ps[i].state = "pending"
       THEN [state |-> "pending", value |-> <<>>]
       ELSE [state |-> "fulfilled", value |-> ps]
DashJoinAny(cs) ==
    LET ps == << AxiosPromise(CallOf(cs, "dash_subs")),
                 AxiosPromise(CallOf(cs, "dash_routes")),
                 AxiosPromise(CallOf(cs, "dash_trips")) >>
    IN IF \E i \in DOMAIN ps : ps[i].state = "rejected"
       THEN [state |-> "rejected", value |-> <<>>]
       ELSE IF \A i \in DOMAIN ps : ps[i].state = "pending"
       THEN [state |-> "pending", value |-> <<>>]
       ELSE [state |-> "fulfilled", value |-> ps]
DashJoin(cs) ==
    PromiseAll(<< AxiosPromise(CallOf(cs, "dash_subs")),
                  AxiosPromise(CallOf(cs, "dash_routes")),
                  AxiosPromise(CallOf(cs, "dash_trips")) >>)

DashboardBody(u, j) ==
    [user |-> u, subscriptions |-> j.value[1].data,
     routes |-> j.value[2].data, trips |-> j.value[3].data]

\* a fan-out call settles; calls still in flight when the handler has already
\* answered settle later and are ignored
DashFanoutSettles ==
    /\ handler = "dashboard"
    /\ pc \in {"dash_fanout", "done"}
    /\ \E id \in {"dash_subs", "dash_routes", "dash_trips"}, raw \in FanoutOutcomes :
          /\ CanEnd(calls, id, raw)
          /\ LET cs == Settle(calls, id, raw)
                 j == DashJoin(cs)
             IN /\ calls' = cs
                /\ IF pc = "done" \/ j.state = "pending"
                   THEN pc' = pc /\ responses' = responses
                   ELSE IF j.state = "rejected"
                   THEN pc' = "done" /\ Send(DashboardFailed)
                   ELSE pc' = "done" /\ Send(Response(200, {}, DashboardBody(user, j)))
          /\ UNCHANGED <<req, handler, user, served>>

----------------------------------------------------------------------------
(* The request is over: its response went out and everything scoped to it  *)
(* is dropped (calls still in flight are abandoned); the server listens on *)
Finish ==
    /\ pc = "done"
    /\ pc' = "idle"
    /\ req' = NoRequest
    /\ handler' = "none"
    /\ calls' = <<>>
    /\ responses' = <<>>
    /\ user' = EmptyObj
    /\ UNCHANGED served

(* An upstream takes a request and never answers it *)
UpstreamHangs ==
    /\ pc # "idle"
    /\ \E i \in DOMAIN calls :
          /\ calls[i].st = "pending"
          /\ calls' = [calls EXCEPT ![i].st = "hung"]
    /\ UNCHANGED <<pc, req, handler, responses, user, served>>

Next ==
    \/ CorsPreflight
    \/ NotFound
    \/ HealthStart
    \/ ProxyStart
    \/ FkGateStart
    \/ DashboardStart
    \/ HealthProbeSettles
    \/ ProxySettles
    \/ FkProbeSettles
    \/ FkCreateSettles
    \/ DashProfileSettles
    \/ DashFanoutSettles
    \/ UpstreamHangs
    \/ Finish

Spec == Init /\ [][Next]_vars

\* An upstream that has not hung answers in the end, and the timer of a call
\* that has one fires: every step that ends a call is taken once it stays
\* possible.
FairSpec ==
    /\ Spec
    /\ WF_vars(HealthProbeSettles)
    /\ WF_vars(ProxySettles)
    /\ WF_vars(FkProbeSettles)
    /\ WF_vars(FkCreateSettles)
    /\ WF_vars(DashProfileSettles)
    /\ WF_vars(DashFanoutSettles)

----------------------------------------------------------------------------
(* Vocabulary of the properties *)

SettledCall(id) == Issued(calls, id) /\ CallOf(calls, id).st = "settled"
RawOf(id) == CallOf(calls, id).raw
AnsweredWith(id, s) == SettledCall(id) /\ RawOf(id).ok /\ RawOf(id).status = s
\* the call ended without a 2xx answer: an HTTP error status or no answer at all
FailedCall(id) == SettledCall(id) /\ ~(RawOf(id).ok /\ RawOf(id).status \in 200..299)
\* the probe is unusable: status >= 500, or a transport failure
Unavailable(id) == SettledCall(id) /\ (~RawOf(id).ok \/ RawOf(id).status >= 500)

\* exactly one response went out, with this status and this error code
RespondedError(s, code) ==
    /\ Len(responses) = 1
    /\ responses[1].status = s
    /\ Prop(responses[1].body, "error") = code

OutboundIds == {calls[i].id : i \in DOMAIN calls}

\* the gate answered with this error and did not delegate
C4_Rejected(s, code, k, v) ==
    /\ RespondedError(s, code)
    /\ Prop(responses[1].body, k) = v
    /\ ~Issued(calls, "fk_create")

HealthProbeOf(svc) ==
    CASE svc = "auth" -> "health_auth"
      [] svc = "route" -> "health_route"
      [] svc = "subscription" -> "health_sub"

HealthIds == {"health_auth", "health_route", "health_sub"}

DashFields == {"user", "subscriptions", "routes", "trips"}
FanoutIds == {"dash_subs", "dash_routes", "dash_trips"}

\* the upstream header names that match the allow-list in any letter case
AllowListedNames == {h_ETag, h_etag, h_location, h_link, h_content_type}

\* the probe ended with a status that is neither 404 nor >= 500
Passing(id) ==
    SettledCall(id) /\ RawOf(id).ok /\ RawOf(id).status # 404 /\ RawOf(id).status < 500
AllFieldsGiven == \A k \in BodyFields : Prop(req.body, k) \notin JsFalsy
ErrorsSent == {Prop(responses[i].body, "error") : i \in DOMAIN responses}

\* the routing table, on the request being handled
Under(prefix) == IsPrefix(prefix, req.path)
ProxiedTo(t) ==
    /\ handler \in Proxies
    /\ OutboundIds = {"proxy"}
    /\ CallOf(calls, "proxy").target = t
GatePost == req.method = "POST" /\ req.path = <<"api", "subscriptions">>

RoutingTable ==
    /\ (Under(<<"api", "auth">>) \/ Under(<<"api", "users">>)) => ProxiedTo("auth")
    /\ Under(<<"api", "routes">>) => ProxiedTo("route")
    /\ Under(<<"api", "trips">>) => ProxiedTo("sub")
    /\ GatePost => handler = "fkGate" /\ "proxy" \notin OutboundIds
    /\ (Under(<<"api", "subscriptions">>) /\ ~GatePost) => ProxiedTo("sub")

----------------------------------------------------------------------------
\* C1: when the user probe and the route probe of POST /api/subscriptions both
\* answer 404, the one response is 400 FOREIGN_KEY_VIOLATION with field
\* userId, never the routeId violation, whichever probe settled first.
C1_BothMissingReportsUser ==
    (handler = "fkGate" /\ AnsweredWith("fk_user", 404) /\ AnsweredWith("fk_route", 404))
    => /\ RespondedError(400, "FOREIGN_KEY_VIOLATION")
       /\ Prop(responses[1].body, "field") = "userId"

C1_Witness_RouteSettledFirst ==
    /\ handler = "fkGate"
    /\ AnsweredWith("fk_user", 404) /\ AnsweredWith("fk_route", 404)
    /\ CallOf(calls, "fk_route").ord < CallOf(calls, "fk_user").ord
    /\ Len(responses) = 1

\* C2: when userId, routeId or semester is absent or falsy, POST
\* /api/subscriptions answers 400 VALIDATION_ERROR and issues no outbound call.
C2_MissingFieldNoCall ==
    (handler = "fkGate" /\ \E k \in BodyFields : Prop(req.body, k) \in JsFalsy)
    => /\ RespondedError(400, "VALIDATION_ERROR")
       /\ calls = <<>>

C2_Witness_RouteIdAbsent ==
    /\ handler = "fkGate"
    /\ req.body = [userId |-> "14", semester |-> "Fall 2025"]
    /\ RespondedError(400, "VALIDATION_ERROR")

\* C3: the POST to the subscription upstream is issued only when the user
\* exists in the auth service and the route exists in the route service,
\* that is only when both owning services confirmed the key with a 2xx answer.
C3_CreateOnlyWhenBothKeysConfirmed ==
    Issued(calls, "fk_create")
    => /\ SettledCall("fk_user") /\ ~FailedCall("fk_user")
       /\ SettledCall("fk_route") /\ ~FailedCall("fk_route")

\* C4: with all fields present the gate's outcome is decided by the pair of
\* probe outcomes, first match wins: user 404, user unavailable, route 404,
\* route unavailable, otherwise the creation is delegated.
C4_PrecedenceTable ==
    (handler = "fkGate" /\ SettledCall("fk_user") /\ SettledCall("fk_route"))
    => IF AnsweredWith("fk_user", 404)
       THEN C4_Rejected(400, "FOREIGN_KEY_VIOLATION", "field", "userId")
       ELSE IF Unavailable("fk_user")
       THEN C4_Rejected(503, "SERVICE_UNAVAILABLE", "service", "auth-user-service")
       ELSE IF AnsweredWith("fk_route", 404)
       THEN C4_Rejected(400, "FOREIGN_KEY_VIOLATION", "field", "routeId")
       ELSE IF Unavailable("fk_route")
       THEN C4_Rejected(503, "SERVICE_UNAVAILABLE", "service", "route-service")
       ELSE /\ Issued(calls, "fk_create")
            /\ \A i \in DOMAIN responses : Prop(responses[i].body, "error") \notin
                  {"FOREIGN_KEY_VIOLATION", "SERVICE_UNAVAILABLE", "VALIDATION_ERROR"}

C4_Witness_UserDownRouteMissing ==
    /\ handler = "fkGate"
    /\ AnsweredWith("fk_user", 500) /\ AnsweredWith("fk_route", 404)
    /\ RespondedError(503, "SERVICE_UNAVAILABLE")

\* C5: GET /health reports a service "up" if and only if its own probe
\* completed without a transport failure.
C5_UpIffProbeCompleted ==
    (handler = "health" /\ Len(responses) > 0)
    => \A svc \in {"auth", "route", "subscription"} :
          (responses[1].body.services[svc] = "up") <=> RawOf(HealthProbeOf(svc)).ok

\* C6: GET /health answers only once all three probes have settled, every
\* probe is issued and none is dropped, and the answer is always 200 with
\* status "ok", never 500 "degraded".
C6_HealthBestEffortJoin ==
    handler = "health"
    => /\ OutboundIds = HealthIds /\ Len(calls) = 3
       /\ (Len(responses) > 0 <=> \A id \in HealthIds : SettledCall(id))
       /\ Len(responses) <= 1
       /\ \A i \in DOMAIN responses :
             responses[i].status = 200 /\ Prop(responses[i].body, "status") = "ok"

C6_Witness_AllProbesFailed ==
    /\ handler = "health"
    /\ \A id \in HealthIds : SettledCall(id) /\ ~RawOf(id).ok
    /\ Len(responses) = 1 /\ responses[1].status = 200

\* C7: the dashboard is all or nothing: once a fan-out call has failed the
\* response is 500 DASHBOARD_FAILED without any of user, subscriptions, routes,
\* trips; a body with such a field has all four and is sent only when the
\* profile fetch and the three fan-out calls all succeeded.
C7_DashboardAllOrNothing ==
    handler = "dashboard"
    => /\ (\E id \in FanoutIds : FailedCall(id))
          => /\ RespondedError(500, "DASHBOARD_FAILED")
             /\ DOMAIN responses[1].body \cap DashFields = {}
       /\ \A i \in DOMAIN responses :
             (DOMAIN responses[i].body \cap DashFields # {})
             => /\ DashFields \subseteq DOMAIN responses[i].body
                /\ \A id \in FanoutIds \cup {"dash_profile"} :
                      SettledCall(id) /\ ~FailedCall(id)

C7_Witness_OnlySubscriptionsFailed ==
    /\ handler = "dashboard"
    /\ FailedCall("dash_subs")
    /\ SettledCall("dash_routes") /\ ~FailedCall("dash_routes")
    /\ SettledCall("dash_trips") /\ ~FailedCall("dash_trips")
    /\ RespondedError(500, "DASHBOARD_FAILED")

\* C8: a response of a proxy or of the gate's passthrough carries no upstream
\* header other than etag, location, link, content-type (in any letter case).
C8_HeaderAllowList ==
    handler \in Proxies \cup {"fkGate"}
    => \A i \in DOMAIN responses : responses[i].headers \subseteq AllowListedNames

C8_Witness_DroppedAndKept ==
    /\ handler \in Proxies
    /\ SettledCall("proxy")
    /\ RawOf("proxy").headers = {h_ETag, h_set_cookie}
    /\ Len(responses) = 1 /\ responses[1].headers = {h_ETag}

C10_NoTokenNoCall ==
    (handler = "dashboard" /\ Prop(req.headers, "authorization") \in {Undefined, "''"})
    => /\ RespondedError(401, "UNAUTHORIZED")
       /\ calls = <<>>

C10_Witness_EmptyAuthorization ==
    /\ handler = "dashboard"
    /\ Prop(req.headers, "authorization") = "''"
    /\ RespondedError(401, "UNAUTHORIZED")

\* C11: a transport failure of the one upstream call of a proxied request
\* gives 502 DOWNSTREAM_ERROR with a message, and the upstream is not called
\* again.
C11_TransportFailureIs502 ==
    (handler \in Proxies /\ SettledCall("proxy") /\ ~RawOf("proxy").ok)
    => /\ RespondedError(502, "DOWNSTREAM_ERROR")
       /\ "message" \in DOMAIN responses[1].body
       /\ Len(calls) = 1

C11_Witness_UpstreamUnreachable ==
    /\ handler = "routeProxy"
    /\ SettledCall("proxy") /\ RawOf("proxy") = TransportError
    /\ Len(responses) = 1

\* C12: when the upstream call of a proxied request ends with an HTTP status,
\* 4xx and 5xx included, the one response has exactly that status and body;
\* it is never turned into 502 DOWNSTREAM_ERROR.
C12_StatusPassedThrough ==
    (handler \in Proxies /\ SettledCall("proxy") /\ RawOf("proxy").ok)
    => /\ Len(responses) = 1
       /\ responses[1].status = RawOf("proxy").status
       /\ responses[1].body = [data |-> RawOf("proxy").data]

C12_Witness_Upstream500 ==
    /\ handler \in Proxies
    /\ AnsweredWith("proxy", 500)
    /\ Len(responses) = 1 /\ responses[1].status = 500

C14_DelegationIffBothPass ==
    handler = "fkGate"
    => /\ Issued(calls, "fk_create")
          <=> (AllFieldsGiven /\ Passing("fk_user") /\ Passing("fk_route"))
       /\ Issued(calls, "fk_create")
          => /\ Len(calls) = 3 /\ calls[3].id = "fk_create"
             /\ calls[3].target = "sub" /\ calls[3].method = "POST"
       /\ (ErrorsSent \cap {"VALIDATION_ERROR", "FOREIGN_KEY_VIOLATION", "SERVICE_UNAVAILABLE"} # {})
          => \A i \in DOMAIN calls : calls[i].target # "sub"

C14_Witness_DelegatedAfterUserLast ==
    /\ handler = "fkGate"
    /\ AnsweredWith("fk_user", 200) /\ AnsweredWith("fk_route", 200)
    /\ CallOf(calls, "fk_route").ord < CallOf(calls, "fk_user").ord
    /\ IsPending(calls, "fk_create")

\* C15: with all fields given both probes are issued and both run to their
\* end; no response and no delegation comes while one is in flight; a
\* transport failure of a probe does not abort the request but counts as
\* status 503 in the precedence.
C15_ProbesBothRunToEnd ==
    (handler = "fkGate" /\ AllFieldsGiven)
    => /\ Len(calls) >= 2 /\ calls[1].id = "fk_user" /\ calls[2].id = "fk_route"
       /\ (Len(responses) > 0 \/ Issued(calls, "fk_create"))
          => (SettledCall("fk_user") /\ SettledCall("fk_route"))
       /\ (SettledCall("fk_user") /\ SettledCall("fk_route") /\ ~RawOf("fk_user").ok)
          => /\ RespondedError(503, "SERVICE_UNAVAILABLE")
             /\ Prop(responses[1].body, "service") = "auth-user-service"
       /\ (Passing("fk_user") /\ SettledCall("fk_route") /\ ~RawOf("fk_route").ok)
          => /\ RespondedError(503, "SERVICE_UNAVAILABLE")
             /\ Prop(responses[1].body, "service") = "route-service"

C15_Witness_UserFailedRouteInFlight ==
    /\ handler = "fkGate"
    /\ SettledCall("fk_user") /\ RawOf("fk_user") = TransportError
    /\ IsPending(calls, "fk_route")
    /\ responses = <<>>

\* C16: the gate answers 502 COMPOSITE_ERROR exactly when the call that
\* creates the subscription failed in transport; no outcome of the two probes
\* gives COMPOSITE_ERROR.
C16_CompositeErrorOnlyFromDelegation ==
    handler = "fkGate"
    => /\ ("COMPOSITE_ERROR" \in ErrorsSent)
          => (SettledCall("fk_create") /\ ~RawOf("fk_create").ok)
       /\ (SettledCall("fk_create") /\ ~RawOf("fk_create").ok)
          => RespondedError(502, "COMPOSITE_ERROR")

C16_Witness_DelegationUnreachable ==
    /\ handler = "fkGate"
    /\ SettledCall("fk_create") /\ RawOf("fk_create") = TransportError
    /\ RespondedError(502, "COMPOSITE_ERROR")

\* C17: each /health probe is bounded by its own timeout, so GET /health
\* answers in the end even when an upstream takes the probe and never answers.
C17_HealthAlwaysAnswers ==
    (pc = "health") ~> (pc = "done")

\* C18: every outbound call of the proxy, of the gate and of the dashboard has
\* a timeout, so every such request is answered in the end even when an
\* upstream never answers.
WaitingPcs == {"proxy", "fk_probes", "fk_create", "dash_profile", "dash_fanout"}

C18_RequestsAlwaysAnswered ==
    (pc \in WaitingPcs) ~> (pc = "done")

\* the part of C18 the code has: the calls of the proxy and of the gate carry a
\* timeout, and those requests are answered in the end
ProxyAndGateAlwaysAnswered ==
    (pc \in {"proxy", "fk_probes", "fk_create"}) ~> (pc = "done")

C20_AnswerAfterWholeFanout ==
    (handler = "dashboard" /\ OutboundIds \cap FanoutIds # {} /\ Len(responses) > 0)
    => \A id \in FanoutIds : SettledCall(id)

\* C20 as amended: the three calls are issued together; the assembled
\* dashboard is sent only after all three have ended; 500 DASHBOARD_FAILED is
\* sent at the first fan-out call that fails, also while others are in flight.
C20_SuccessAfterAllFailureAtFirst ==
    handler = "dashboard"
    => /\ (OutboundIds \cap FanoutIds # {}) => (FanoutIds \subseteq OutboundIds)
       /\ \A i \in DOMAIN responses :
             responses[i].status = 200 => \A id \in FanoutIds : SettledCall(id)
       /\ (\A id \in FanoutIds : SettledCall(id)) => Len(responses) = 1
       /\ (OutboundIds \cap FanoutIds # {} /\ Len(responses) > 0
             /\ \E id \in FanoutIds : ~SettledCall(id))
          => /\ RespondedError(500, "DASHBOARD_FAILED")
             /\ \E id \in FanoutIds : FailedCall(id)

C20_Witness_FailedWhileOthersInFlight ==
    /\ handler = "dashboard"
    /\ FailedCall("dash_subs")
    /\ IsPending(calls, "dash_routes") /\ IsPending(calls, "dash_trips")
    /\ RespondedError(500, "DASHBOARD_FAILED")

\* C21: the trips call of the fan-out carries the identity taken from the
\* profile (id, else userId) as its userId query parameter, and the three
\* fan-out calls carry the caller's Authorization value unchanged.
C21_TripsFilteredByUser ==
    (handler = "dashboard" /\ Issued(calls, "dash_trips"))
    => /\ CallOf(calls, "dash_trips").params
            = [userId |-> OrElse(Prop(user, "id"), Prop(user, "userId"))]
       /\ \A id \in FanoutIds :
             CallOf(calls, id).headers.Authorization = Prop(req.headers, "authorization")

\* the part of C21 the code has: the Authorization value goes out unchanged
\* on the three calls, and the identity is in the path of the subscriptions call
FanoutCarriesAuthorization ==
    (handler = "dashboard" /\ Issued(calls, "dash_trips"))
    => /\ \A id \in FanoutIds :
             CallOf(calls, id).headers.Authorization = Prop(req.headers, "authorization")
       /\ CallOf(calls, "dash_subs").path[4] = OrElse(Prop(user, "id"), Prop(user, "userId"))
       /\ CallOf(calls, "dash_trips").params = EmptyObj
       /\ CallOf(calls, "dash_trips").headers.params = "[object Object]"

\* C22: nothing is retried. Within one inbound request no outbound call is
\* issued twice (proxy: at most 1 call; health: exactly 3; gate: at most 2
\* probes and 1 delegation; dashboard: at most 1 profile fetch and 3 fan-out
\* calls), a call that has ended keeps its outcome, and once a call has
\* failed no further call is issued for that request.
CallCount(id) == Cardinality({i \in DOMAIN calls : calls[i].id = id})

CallsOfHandler ==
    CASE handler \in Proxies -> {"proxy"}
      [] handler = "health" -> HealthIds
      [] handler = "fkGate" -> {"fk_user", "fk_route", "fk_create"}
      [] handler = "dashboard" -> {"dash_profile"} \cup FanoutIds
      [] OTHER -> {}

AtMostOnce ==
    /\ OutboundIds \subseteq CallsOfHandler
    /\ \A id \in CallsOfHandler : CallCount(id) <= 1
    /\ handler \in Proxies => CallCount("proxy") = 1
    /\ handler = "health" => OutboundIds = HealthIds

SomeCallRejected ==
    \E i \in DOMAIN calls : calls[i].st = "settled" /\ AxiosPromise(calls[i]).state = "rejected"

NoRetryStep ==
    pc' # "idle"
    => /\ \A i \in DOMAIN calls :
             calls[i].st = "settled" => (i \in DOMAIN calls' /\ calls'[i] = calls[i])
       /\ SomeCallRejected => Len(calls') = Len(calls)

C22_NothingRetried ==
    [](AtMostOnce) /\ [][NoRetryStep]_vars

C22_Witness_ProbeFailedNoDelegation ==
    /\ handler = "fkGate"
    /\ SettledCall("fk_user") /\ ~RawOf("fk_user").ok
    /\ AnsweredWith("fk_route", 200)
    /\ Len(calls) = 2
    /\ RespondedError(503, "SERVICE_UNAVAILABLE")

\* C23: a request handled by the health, proxy, gate or dashboard handler gets
\* at most one response in every execution: none while the handler is still
\* waiting, exactly one once it has ended, and a response that went out is
\* never followed by another, whatever the calls still in flight do.
Handlers == Proxies \cup {"health", "fkGate", "dashboard"}

OneResponseStep ==
    (pc' # "idle" /\ Len(responses) > 0) => responses' = responses

C23_AtMostOneResponse ==
    /\ [](handler \in Handlers
            => /\ Len(responses) <= 1
               /\ pc = "done" <=> Len(responses) = 1)
    /\ [][OneResponseStep]_vars

C23_Witness_TwoFailuresOneResponse ==
    /\ handler = "dashboard"
    /\ pc = "done"
    /\ FailedCall("dash_subs") /\ FailedCall("dash_routes")
    /\ Len(responses) = 1

====
